---------------------------- MODULE Spec2Model ----------------------------
(***************************************************************************)
(* State-machine model of the IPO news pipeline:                           *)
(*   - the two agents of src/agent/live.mjs (the first agent, lines 1-228, *)
(*     and the low-request agent, lines 230-489): news fetch, LLM          *)
(*     extraction loop, merge by normalized company name, summary loop,    *)
(*     POST to the webhook and exit code;                                  *)
(*   - getArticles of both agents and gnewsFetch of the low-request agent; *)
(*   - the three /monthly servers (src/server.js, src/unnamed/part_000).   *)
(* Strings that the code inspects character by character (company names,   *)
(* article texts, summaries) are sequences of one-character strings.       *)
(***************************************************************************)
EXTENDS Integers, Sequences, FiniteSets, TLC

VARIABLES
    \* ---- agent main(): extraction loop and merge
    agent,        \* "first" (live.mjs 1-228) or "low" (live.mjs 230-489)
    maxArticles,  \* MAX_ARTICLES as computed from the environment
    nFetched,     \* number of articles getArticles() returned
    idx,          \* 1-based position of the extraction loop
    replies,      \* what the LLM call did for each article processed so far
    items,        \* const items = []
    llmCalls,     \* number of extraction calls issued
    gapMs,        \* ms slept since the last extraction call was issued
    lastGap,      \* gapMs as it was when the last call was issued (NoGap: first call)
    pcA,          \* "fetch" | "extract" | "merged" (the summary loop runs) |
                  \* "exited" | "idle" (main() is not what runs)
    finalItems,   \* Array.from(byCo.values())
    fetched,      \* "pending" | "ok" | "threw": how getArticles() ended
    sumIdx,       \* 1-based position of the summary loop
    aiSummaries,  \* it.ai_summary of the final items the summary loop has passed
    posts,        \* POSTs sent to WEBHOOK_URL
    postOut,      \* "none" | "ok" | "notok" | "reject": how that POST settled
    exitCode,     \* exit code of the process (NoExit while it runs)
    \* ---- getArticles() / gnewsFetch() of the low-request agent
    pcN,          \* "idle" | "fetch" | "returned" | "threw" | "done"
    phase,        \* "headlines" | "search": which loop of getArticles is running
    page,         \* p of the running loop
    qIdx,         \* index into queries (search phase)
    pagesNeeded,  \* pagesNeeded, computed when the search phase starts
    all,          \* let all = []
    attempt,      \* i of gnewsFetch's for loop
    resps,        \* responses this gnewsFetch call has received, in order
    waits,        \* sleeps this gnewsFetch call has done, in order
    thrown,       \* what the call threw ("" while it has not)
    chunk,        \* articles of the call that returned
    sinceReq,     \* ms slept since the last HTTP request to GNews (NoGap: none sent yet)
    lastReqGap,   \* sinceReq as it was when the last request was sent
    articles,     \* what getArticles() returned
    \* ---- the /monthly servers
    variant,      \* "sendgrid" (src/server.js) | "ai" (part_000 1-247) | "resend" (part_000 249-439)
    env,          \* process.env, as far as the servers read it
    req,          \* the request being handled
    pcS,          \* "idle" | "routing" | "handler" | "ai" | "email" | "forward" | "responded" | "off"
    payload,      \* parsed.data
    aiIdx,        \* position of the AI summary loop
    validated,    \* Payload.safeParse has run for this request
    aiCalls,      \* summary calls made for this request
    emailSends,   \* provider send calls made for this request
    forwards,     \* POSTs to ZAPIER_HOOK_URL made for this request
    emailStep,    \* "none" | "dry" | "sent" | "threw": how the email step ended
    forwardOut,   \* "none" | "200" | "500" | "reject": how the forward's fetch settled
    html,         \* what buildHtml put in each row's summary cell
    resStatus,    \* HTTP status of the response (0: none yet)
    resBody       \* body of the response

deliveryVars == <<fetched, sumIdx, aiSummaries, posts, postOut, exitCode>>
agentVars == <<nFetched, idx, replies, items, llmCalls, gapMs, lastGap, pcA, finalItems,
               deliveryVars>>
newsVars == <<pcN, phase, page, qIdx, pagesNeeded, all, attempt, resps, waits,
              thrown, chunk, sinceReq, lastReqGap, articles>>
serverVars == <<variant, env, req, pcS, payload, aiIdx, validated, aiCalls, emailSends,
                forwards, emailStep, forwardOut, html, resStatus, resBody>>
vars == <<agent, maxArticles, agentVars, newsVars, serverVars>>

(* ------------------------------ bounds -------------------------------- *)
\* Largest number of articles a run of the extraction loop is given.
MaxFetched == 3

(* --------------------------- program constants ------------------------ *)
\* MAX_ARTICLES defaults and floor.
DefaultMaxFirst == 30
DefaultMaxLow == 20
MinMaxLow == 5
\* Sleep after an extraction call: first agent, low-request agent.
ExtractDelayFirst == 150
ExtractDelayLow == 200
\* gnewsFetch: base delay, default tries, jitter span, 5xx step.
BASE_DELAY_MS == 2500
DefaultTries == 5
JitterSpan == 400
RetryStepMs == 1000
\* getArticles: articles per page, headline pages, search pages.
PerPageCap == 10
HeadlinePagesCap == 3
SearchPagesCap == 2

(* ------------------------- strings as char sequences ------------------ *)
UpperChars == <<"A","B","C","D","E","F","G","H","I","J","K","L","M",
                "N","O","P","Q","R","S","T","U","V","W","X","Y","Z">>
LowerChars == <<"a","b","c","d","e","f","g","h","i","j","k","l","m",
                "n","o","p","q","r","s","t","u","v","w","x","y","z">>

\* String.prototype.toLowerCase on one character.
LowerChar(ch) ==
    IF \E k \in 1..26 : UpperChars[k] = ch
    THEN LowerChars[CHOOSE k \in 1..26 : UpperChars[k] = ch]
    ELSE ch

toLowerCase(s) == [k \in 1..Len(s) |-> LowerChar(s[k])]

\* The alternatives of /limited|ltd\.?|private|pvt\.?|ipo|drhp|rhp|public issue/gi
\* in the order the regex tries them; the greedy optional dot of ltd\.? and
\* pvt\.? is the dotted alternative placed before the undotted one.
StripPatterns ==
    << <<"l","i","m","i","t","e","d">>,
       <<"l","t","d",".">>,
       <<"l","t","d">>,
       <<"p","r","i","v","a","t","e">>,
       <<"p","v","t",".">>,
       <<"p","v","t">>,
       <<"i","p","o">>,
       <<"d","r","h","p">>,
       <<"r","h","p">>,
       <<"p","u","b","l","i","c"," ","i","s","s","u","e">> >>

\* TRUE iff pattern p occurs in s starting at position pos.
MatchesAt(s, pos, p) ==
    /\ pos + Len(p) - 1 <= Len(s)
    /\ \A k \in 1..Len(p) : s[pos + k - 1] = p[k]

\* Length of the regex match at pos (0: no alternative matches there).
MatchLen(s, pos) ==
    LET hits == {k \in 1..Len(StripPatterns) : MatchesAt(s, pos, StripPatterns[k])}
    IN  IF hits = {} THEN 0
        ELSE Len(StripPatterns[CHOOSE k \in hits : \A j \in hits : k <= j])

\* .replace(<pattern>/gi, ""): scan left to right, drop each match.
RECURSIVE StripFrom(_, _)
StripFrom(s, pos) ==
    IF pos > Len(s) THEN <<>>
    ELSE LET m == MatchLen(s, pos)
         IN  IF m > 0 THEN StripFrom(s, pos + m)
             ELSE <<s[pos]>> \o StripFrom(s, pos + 1)

IsSpace(ch) == ch \in {" ", "\t"}

\* .replace(/\s+/g, " "): every run of whitespace becomes one space.
RECURSIVE CollapseFrom(_, _)
CollapseFrom(s, pos) ==
    IF pos > Len(s) THEN <<>>
    ELSE IF IsSpace(s[pos])
         THEN IF pos > 1 /\ IsSpace(s[pos - 1])
              THEN CollapseFrom(s, pos + 1)
              ELSE <<" ">> \o CollapseFrom(s, pos + 1)
         ELSE <<s[pos]>> \o CollapseFrom(s, pos + 1)

\* String.prototype.trim.
RECURSIVE trim(_)
trim(s) ==
    IF s = <<>> THEN s
    ELSE IF IsSpace(s[1]) THEN trim(Tail(s))
    ELSE IF IsSpace(s[Len(s)]) THEN trim(SubSeq(s, 1, Len(s) - 1))
    ELSE s

\* normCompany of the first agent: (s || "") then the same pipeline.
normCompany(s) == trim(CollapseFrom(StripFrom(toLowerCase(s), 1), 1))

\* normCo of the low-request agent.
normCo(s) == trim(CollapseFrom(StripFrom(toLowerCase(s), 1), 1))

(* ------------------------------ status ranking ------------------------ *)
\* The value of a comparison operand that is not a number.
NaN == 0 - 1
\* lastGap before any call has been issued.
NoGap == 0 - 1
\* "The process has not exited."
NoExit == 0 - 1

\* Property names every object literal inherits from Object.prototype: for
\* these r[a] is a function or an object (truthy), not undefined.
InheritedProps == {"constructor", "toString", "valueOf", "hasOwnProperty", "__proto__"}

\* (rank[a] || 0) as the operand of >= : a number, or NaN for an inherited member.
RankOperand(a) ==
    CASE a = "approved" -> 4
      [] a = "RHP"      -> 3
      [] a = "DRHP"     -> 2
      [] a = "rumor"    -> 1
      [] a \in InheritedProps -> NaN
      [] OTHER -> 0

\* x >= y of JavaScript: false as soon as one operand is NaN.
JsGe(x, y) == IF x = NaN \/ y = NaN THEN FALSE ELSE x >= y

\* A ranking that has RHP and DRHP the wrong way round.
RankOperandSwapped(a) ==
    CASE a = "approved" -> 4
      [] a = "RHP"      -> 2
      [] a = "DRHP"     -> 3
      [] a = "rumor"    -> 1
      [] a \in InheritedProps -> NaN
      [] OTHER -> 0

\* pickStatus with the mis-ordered ranking.
pickStatusSwapped(a, b) == IF JsGe(RankOperandSwapped(a), RankOperandSwapped(b)) THEN a ELSE b

\* pickBetterStatus (first agent).
pickBetterStatus(a, b) == IF JsGe(RankOperand(a), RankOperand(b)) THEN a ELSE b

\* pickStatus (low-request agent).
pickStatus(a, b) == IF JsGe(RankOperand(a), RankOperand(b)) THEN a ELSE b

(* ------------------------------ JS values ----------------------------- *)
\* An optional property: <<>> is undefined, <<v>> is the value v.
None == <<>>
Some(v) == <<v>>

\* uniq(arr): [...new Set(arr)] keeps the first occurrence of each element.
RECURSIVE uniq(_)
uniq(arr) ==
    IF arr = <<>> THEN <<>>
    ELSE LET init == uniq(SubSeq(arr, 1, Len(arr) - 1))
             x    == arr[Len(arr)]
         IN  IF \E k \in 1..Len(init) : init[k] = x THEN init ELSE Append(init, x)

\* { ...p, ...q } on objects modelled as functions from their keys.
Spread(p, q) == [k \in (DOMAIN p) \cup (DOMAIN q) |-> IF k \in DOMAIN q THEN q[k] ELSE p[k]]

(* --------------------------- inputs of the agent ---------------------- *)
AcmeLtd     == <<"A","c","m","e"," ","L","t","d",".">>
ACMELimited == <<"A","C","M","E"," ","L","i","m","i","t","e","d">>
ZedIpo      == <<"Z","e","d"," "," ","I","P","O">>

Companies == {AcmeLtd, ACMELimited, ZedIpo}

\* normCompany / normCo of every company name of the model, computed once.
normCompanyOf == [c \in Companies |-> normCompany(c)]
normCoOf == [c \in Companies |-> normCo(c)]

\* Status strings the model lets the LLM return: the four ranked values, two
\* strings outside the ranking and one inherited property name.
Statuses == {"approved", "RHP", "DRHP", "rumor", "filed", "listed", "constructor"}

NoLinks == [k \in {} |-> ""]

\* company_type is the JSON type of the company value: "string", or "number"
\* (the company is then held as the number's digits).
Obj(company, status, banks, links) ==
    [company |-> company, company_type |-> "string", status |-> status,
     lead_banks |-> banks, links |-> links]

\* {"company": 42, "status": "DRHP"}
NumberCompanyObj ==
    [Obj(Some(<<"4", "2">>), Some("DRHP"), None, None) EXCEPT !.company_type = "number"]

EmptyObj == Obj(None, None, None, None)

\* JSON objects the LLM may reply with.
ReplyObjects ==
    {Obj(Some(AcmeLtd), Some(st), None, None) : st \in Statuses}
    \cup
    { Obj(Some(ACMELimited), Some("DRHP"), Some(<<"Axis", "Kotak">>),
          Some([drhp |-> "https://sebi/d1"])),
      Obj(Some(ACMELimited), Some("listed"), Some(<<"Kotak", "Kotak">>), None),
      Obj(Some(ZedIpo), Some("RHP"), Some(<<"Axis", "Axis">>),
          Some([news |-> "https://press/z"])),
      Obj(Some(ZedIpo), Some("rumor"), None, Some([news |-> ""])),
      Obj(None, Some("RHP"), None, None),
      Obj(Some(AcmeLtd), Some(""), None, None),
      Obj(Some(<<>>), Some("DRHP"), None, None),
      NumberCompanyObj }

\* What one extraction call can do: reject, answer without content, answer
\* with text that is not JSON, with the JSON value null, or with an object.
Replies ==
    {[kind |-> k, obj |-> EmptyObj] : k \in {"throw", "nocontent", "notjson", "null"}}
    \cup {[kind |-> "object", obj |-> o] : o \in ReplyObjects}

\* MAX_ARTICLES of the environment: unset, or a small number.
EnvMaxChoices == {None, Some(2)}

\* a.url of the j-th article.
ArticleUrl(j) == "https://news/" \o ToString(j)

(* --------------------------- extractItemFromArticle ------------------- *)
\* !x for an optional string property: undefined and "" are falsy.
Falsy(opt) == opt = None \/ opt[1] = ""
\* the same for a string held as a character sequence.
FalsyChars(opt) == opt = None \/ opt[1] = <<>>

\* obj.links with news set to obj.links?.news || a.url.
NormalizedLinks(o, url) ==
    LET given == IF o.links = None THEN NoLinks ELSE o.links[1]
        news  == IF "news" \in DOMAIN given /\ given["news"] # "" THEN given["news"] ELSE url
    IN  Spread(given, [news |-> news])

ItemOf(o, url) ==
    [company |-> o.company[1], company_type |-> o.company_type, status |-> o.status[1],
     lead_banks |-> o.lead_banks, links |-> NormalizedLinks(o, url)]

NoItem == [company |-> <<>>, company_type |-> "string", status |-> "",
           lead_banks |-> None, links |-> NoLinks]

\* An extraction that accepts an object without a status.
extractItemNoStatusCheck(ag, url, reply) ==
    CASE reply.kind = "throw" -> [outcome |-> "throw", item |-> NoItem]
      [] reply.kind \in {"nocontent", "notjson"} -> [outcome |-> "null", item |-> NoItem]
      [] reply.kind = "null" ->
            IF ag = "first" THEN [outcome |-> "null", item |-> NoItem]
            ELSE [outcome |-> "throw", item |-> NoItem]
      [] OTHER ->
            IF FalsyChars(reply.obj.company)
            THEN [outcome |-> "null", item |-> NoItem]
            ELSE [outcome |-> "item",
                  item |-> ItemOf([reply.obj EXCEPT !.status =
                                      IF @ = None THEN Some("") ELSE @], url)]

\* extractItemFromArticle: the outcome of the call for one article.
\*   throw : the call rejected (or, in the low-request agent, obj is null and
\*           obj.company throws a TypeError)
\*   null  : no content / unparsable text (obj = {}) / missing company or status
\*   item  : the cleaned-up object
extractItemFromArticle(ag, url, reply) ==
    CASE reply.kind = "throw" -> [outcome |-> "throw", item |-> NoItem]
      [] reply.kind \in {"nocontent", "notjson"} -> [outcome |-> "null", item |-> NoItem]
      [] reply.kind = "null" ->
            IF ag = "first" THEN [outcome |-> "null", item |-> NoItem]
            ELSE [outcome |-> "throw", item |-> NoItem]
      [] OTHER ->
            IF FalsyChars(reply.obj.company) \/ Falsy(reply.obj.status)
            THEN [outcome |-> "null", item |-> NoItem]
            ELSE [outcome |-> "item", item |-> ItemOf(reply.obj, url)]

(* ------------------------------ merge by company ---------------------- *)
\* A merge that keys the map by the raw company string.
MergeKeyRaw(ag, it) == it.company

\* const key = normCompany(it.company) / normCo(it.company)
MergeKey(ag, it) == IF ag = "first" THEN normCompanyOf[it.company] ELSE normCoOf[it.company]

BanksOrEmpty(it) == IF it.lead_banks = None THEN <<>> ELSE it.lead_banks[1]

\* { ...prev, ...it, status, lead_banks, links }
Merged(ag, prev, it) ==
    [company    |-> it.company,
     company_type |-> it.company_type,
     status     |-> IF ag = "first" THEN pickBetterStatus(it.status, prev.status)
                    ELSE pickStatus(it.status, prev.status),
     lead_banks |-> Some(uniq(BanksOrEmpty(prev) \o BanksOrEmpty(it))),
     links      |-> Spread(prev.links, it.links)]

\* One iteration of "for (const it of items)" on the Map byCo, held as the
\* sequence of its entries in insertion order.
MergeStep(ag, byCo, it) ==
    LET key == MergeKey(ag, it)
        at  == {k \in 1..Len(byCo) : byCo[k].key = key}
    IN  IF at = {} THEN Append(byCo, [key |-> key, val |-> it])
        ELSE LET k == CHOOSE k \in at : TRUE
             IN  [byCo EXCEPT ![k].val = Merged(ag, byCo[k].val, it)]

RECURSIVE MergeAll(_, _)
MergeAll(ag, its) ==
    IF its = <<>> THEN <<>>
    ELSE MergeStep(ag, MergeAll(ag, SubSeq(its, 1, Len(its) - 1)), its[Len(its)])

\* normCompany(it.company) / normCo(it.company) throws a TypeError for some
\* item: the company is truthy but has no toLowerCase.
MergeThrows(its) == \E k \in 1..Len(its) : its[k].company_type # "string"

\* Array.from(byCo.values())
MergeByCompany(ag, its) ==
    LET byCo == MergeAll(ag, its) IN [k \in 1..Len(byCo) |-> byCo[k].val]

(* ------------------------------ agent main() -------------------------- *)
Min(a, b) == IF a <= b THEN a ELSE b
Max(a, b) == IF a >= b THEN a ELSE b

\* MAX_ARTICLES from the environment variable.
MaxArticlesOf(ag, envMax) ==
    IF ag = "first"
    THEN (IF envMax = None THEN DefaultMaxFirst ELSE envMax[1])
    ELSE Max(MinMaxLow, IF envMax = None THEN DefaultMaxLow ELSE envMax[1])

\* Number of articles the extraction loop iterates over: the first agent
\* slices to MAX_ARTICLES, the low-request agent takes getArticles() whole.
LoopLength == IF agent = "first" THEN Min(nFetched, maxArticles) ELSE nFetched

ExtractDelay(ag) == IF ag = "first" THEN ExtractDelayFirst ELSE ExtractDelayLow

\* main() is not what runs.
DeliveryIdle ==
    /\ fetched = "pending" /\ sumIdx = 1 /\ aiSummaries = <<>> /\ posts = 0
    /\ postOut = "none" /\ exitCode = NoExit

\* getArticles() is not what runs.
NewsIdle ==
    /\ pcN = "idle" /\ phase = "headlines" /\ page = 1 /\ qIdx = 1
    /\ pagesNeeded = 0 /\ all = <<>> /\ attempt = 0 /\ resps = <<>>
    /\ waits = <<>> /\ thrown = "" /\ chunk = <<>> /\ sinceReq = 0
    /\ lastReqGap = NoGap /\ articles = <<>>

\* No server runs.
ServerOff ==
    /\ variant = "sendgrid" /\ env = <<>> /\ req = <<>> /\ pcS = "off"
    /\ payload = <<>> /\ aiIdx = 1 /\ validated = FALSE /\ aiCalls = 0
    /\ emailSends = 0 /\ forwards = 0 /\ emailStep = "none" /\ forwardOut = "none"
    /\ html = <<>> /\ resStatus = 0 /\ resBody = ""

InitAgent ==
    /\ agent \in {"first", "low"}
    /\ \E envMax \in EnvMaxChoices : maxArticles = MaxArticlesOf(agent, envMax)
    /\ nFetched = 0
    /\ idx = 1
    /\ replies = <<>>
    /\ items = <<>>
    /\ llmCalls = 0
    /\ gapMs = 0
    /\ lastGap = NoGap
    /\ pcA = "fetch"
    /\ finalItems = <<>>
    /\ DeliveryIdle
    /\ NewsIdle
    /\ ServerOff

\* Start of the script and "const articles = await getArticles()":
\*   - WEBHOOK_URL, SHARED_SECRET or an API key is missing: process.exit(2);
\*   - getArticles() returns its articles (at most MAX_ARTICLES of them in
\*     the low-request agent);
\*   - getArticles() throws: the low-request agent's catch calls
\*     process.exit(1); in the first agent the rejection of main() is
\*     unhandled, which ends the process with exit code 1.
FetchNews ==
    /\ pcA = "fetch"
    /\ \/ /\ pcA' = "exited" /\ exitCode' = 2
          /\ UNCHANGED <<nFetched, fetched>>
       \/ /\ nFetched' \in 0..MaxFetched
          /\ agent = "low" => nFetched' <= maxArticles
          /\ fetched' = "ok" /\ pcA' = "extract"
          /\ UNCHANGED exitCode
       \/ /\ fetched' = "threw" /\ pcA' = "exited" /\ exitCode' = 1
          /\ UNCHANGED nFetched
    /\ UNCHANGED <<agent, maxArticles, idx, replies, items, llmCalls, gapMs, lastGap,
                   finalItems, sumIdx, aiSummaries, posts, postOut, newsVars, serverVars>>

\* One iteration of the extraction loop:
\*   try { const it = await extractItemFromArticle(a); if (it) items.push(it);
\*         await sleep(delay); } catch (e) { console.error(...) }
ExtractOne ==
    /\ pcA = "extract"
    /\ idx <= LoopLength
    /\ \E reply \in Replies :
         LET r == extractItemFromArticle(agent, ArticleUrl(idx), reply)
         IN  /\ replies' = Append(replies, reply)
             /\ items' = IF r.outcome = "item" THEN Append(items, r.item) ELSE items
             /\ gapMs' = IF r.outcome = "throw" THEN 0 ELSE ExtractDelay(agent)
    /\ llmCalls' = llmCalls + 1
    /\ lastGap' = IF llmCalls = 0 THEN NoGap ELSE gapMs
    /\ idx' = idx + 1
    /\ UNCHANGED <<agent, maxArticles, nFetched, pcA, finalItems, deliveryVars,
                   newsVars, serverVars>>

\* The loop is over: merge by company. A TypeError of the merge loop ends the
\* run with exit code 1 (the catch of the low-request agent; an unhandled
\* rejection in the first agent).
MergeItems ==
    /\ pcA = "extract"
    /\ idx > LoopLength
    /\ IF MergeThrows(items)
       THEN pcA' = "exited" /\ exitCode' = 1 /\ UNCHANGED finalItems
       ELSE /\ finalItems' = MergeByCompany(agent, items)
            /\ pcA' = "merged"
            /\ UNCHANGED exitCode
    /\ UNCHANGED <<agent, maxArticles, nFetched, idx, replies, items, llmCalls,
                   gapMs, lastGap, fetched, sumIdx, aiSummaries, posts, postOut,
                   newsVars, serverVars>>

\* An ai_summary written by addAdvisorSummary (texts are sequences of
\* characters).
AgentSummary == <<"R", "&", "D">>

\* What the completion call of addAdvisorSummary does: content, no content
\* (ai_summary is then undefined), or a rejection.
AdvisorOutcomes == {"text", "nocontent", "throw"}

\* One iteration of the summary loop:
\*   try { await addAdvisorSummary(it); } catch (e) { console.error(...) }
SummarizeOne ==
    /\ pcA = "merged"
    /\ sumIdx <= Len(finalItems)
    /\ \E out \in AdvisorOutcomes :
         aiSummaries' = Append(aiSummaries, IF out = "text" THEN Some(AgentSummary) ELSE None)
    /\ sumIdx' = sumIdx + 1
    /\ UNCHANGED <<agent, maxArticles, nFetched, idx, replies, items, llmCalls, gapMs,
                   lastGap, pcA, finalItems, fetched, posts, postOut, exitCode,
                   newsVars, serverVars>>

\* How the POST to WEBHOOK_URL settles: an ok response, a response that is
\* not ok, or a rejection of fetch.
PostOutcomes == {"ok", "notok", "reject"}

\* The summary loop is over: POST the payload to WEBHOOK_URL. A response that
\* is not ok calls process.exit(1); a rejection ends the run with exit code 1
\* like any other throw; otherwise the script ends (exit code 0).
PostWebhook ==
    /\ pcA = "merged"
    /\ sumIdx > Len(finalItems)
    /\ posts' = posts + 1
    /\ \E out \in PostOutcomes :
         /\ postOut' = out
         /\ exitCode' = IF out = "ok" THEN 0 ELSE 1
    /\ pcA' = "exited"
    /\ UNCHANGED <<agent, maxArticles, nFetched, idx, replies, items, llmCalls, gapMs,
                   lastGap, finalItems, fetched, sumIdx, aiSummaries, newsVars, serverVars>>

NextAgent == FetchNews \/ ExtractOne \/ MergeItems \/ SummarizeOne \/ PostWebhook

SpecAgent == InitAgent /\ [][NextAgent]_vars

(* ====================================================================== *)
(* Claims about the agent                                                 *)
(* ====================================================================== *)
NormOf(ag, s) == IF ag = "first" THEN normCompanyOf[s] ELSE normCoOf[s]

\* C1: after the merge step no two final items have the same normalized
\* company name, and every extracted item's normalized name is the
\* normalized name of exactly one final item.
C1_MergeUniqueByCompany ==
    pcA = "merged" =>
      /\ \A i, j \in 1..Len(finalItems) :
            i # j => NormOf(agent, finalItems[i].company) # NormOf(agent, finalItems[j].company)
      /\ \A k \in 1..Len(items) :
            Cardinality({i \in 1..Len(finalItems) :
                NormOf(agent, finalItems[i].company) = NormOf(agent, items[k].company)}) = 1

\* C1 witness: three extracted items, two of which name the same company
\* under different spellings, merged into two final items.
C1_Witness ==
    /\ pcA = "merged"
    /\ Len(items) = 3
    /\ Len(finalItems) = 2
    /\ \E i, j \in 1..3 : i # j /\ items[i].company = AcmeLtd /\ items[j].company = ACMELimited

\* The fixed ranking approved > RHP > DRHP > rumor, every other string below.
ClaimRank(st) ==
    CASE st = "approved" -> 4 [] st = "RHP" -> 3 [] st = "DRHP" -> 2
      [] st = "rumor" -> 1 [] OTHER -> 0

\* Positions in its of the mentions of the company with normalized name key.
MentionsOf(its, key) == {j \in 1..Len(its) : NormOf(agent, its[j].company) = key}

\* The mentions of highest rank among the positions M.
TopOf(its, M) == {j \in M : \A m \in M : ClaimRank(its[j].status) >= ClaimRank(its[m].status)}

\* Status the merge of its gives the company with normalized name key.
FinalStatus(its, key) ==
    LET fin == MergeByCompany(agent, its)
        i   == CHOOSE i \in 1..Len(fin) : NormOf(agent, fin[i].company) = key
    IN  fin[i].status

\* All orders in which a sequence of n items can be processed.
Perms(n) == {p \in [1..n -> 1..n] : \A a, b \in 1..n : a # b => p[a] # p[b]}
Permuted(its, p) == [k \in 1..Len(its) |-> its[p[k]]]

C6_SleepBetweenCalls == lastGap = NoGap \/ lastGap >= ExtractDelay(agent)

\* A reply that parses as a JSON object with non-empty company and status.
ReplyValid(reply) ==
    /\ reply.kind = "object"
    /\ reply.obj.company # None /\ reply.obj.company[1] # <<>>
    /\ reply.obj.status # None /\ reply.obj.status[1] # ""

\* C8: one extraction call per article of the loop, which covers at most
\* MAX_ARTICLES articles; the items are exactly the valid replies, in order;
\* whatever the replies were, the loop reaches the end of the articles.
C8_OneCallPerArticle ==
    /\ llmCalls = Len(replies)
    /\ llmCalls <= Min(nFetched, maxArticles)
    /\ LET valid == SelectSeq(replies, ReplyValid)
       IN  /\ Len(items) = Len(valid)
           /\ \A k \in 1..Len(valid) :
                 /\ items[k].company = valid[k].obj.company[1]
                 /\ items[k].status = valid[k].obj.status[1]
    /\ pcA = "merged" => llmCalls = Min(nFetched, maxArticles)

\* C8 witness: the first call throws, the second answers text that is not
\* JSON, the third answers a valid object: one item, three calls.
C8_Witness ==
    /\ pcA = "merged"
    /\ llmCalls = 3
    /\ replies[1].kind = "throw" /\ replies[2].kind = "notjson"
    /\ ReplyValid(replies[3])
    /\ Len(items) = 1

\* C13: at most one POST is sent to WEBHOOK_URL, and only after the news
\* fetch succeeded and the extraction loop, the merge and the summary loop
\* have finished for all items; every run whose news fetch succeeded ends
\* having sent that POST; the exit code is 1 when the POST's response is not
\* ok; in the low-request agent a thrown news fetch ends the run with exit
\* code 1 and no POST.
C13_OnePostAfterSummary ==
    /\ posts <= 1
    /\ posts = 1 =>
          /\ fetched = "ok" /\ idx > LoopLength
          /\ ~MergeThrows(items) /\ finalItems = MergeByCompany(agent, items)
          /\ sumIdx > Len(finalItems) /\ Len(aiSummaries) = Len(finalItems)
    /\ (pcA = "exited" /\ fetched = "ok") => posts = 1
    /\ (pcA = "exited" /\ postOut = "notok") => exitCode = 1
    /\ (agent = "low" /\ fetched = "threw") =>
          pcA = "exited" /\ exitCode = 1 /\ posts = 0

\* The elements of a sequence.
Range(seq) == {seq[k] : k \in 1..Len(seq)}

\* C16: after the merge step the lead_banks of every final item has no
\* duplicate entry and holds exactly the lead banks named by the mentions of
\* that company, and its links have every key any of those mentions has.
C16_BanksAndLinksMerged ==
    pcA = "merged" =>
      \A i \in 1..Len(finalItems) :
         LET key   == NormOf(agent, finalItems[i].company)
             M     == MentionsOf(items, key)
             banks == BanksOrEmpty(finalItems[i])
         IN  /\ \A a, b \in 1..Len(banks) : a # b => banks[a] # banks[b]
             /\ Range(banks) = UNION {Range(BanksOrEmpty(items[j])) : j \in M}
             /\ \A j \in M : DOMAIN items[j].links \subseteq DOMAIN finalItems[i].links

(* ====================================================================== *)
(* gnewsFetch and getArticles of the low-request agent                    *)
(* ====================================================================== *)
\* IPO_RGX = /\b(ipo|drhp|rhp|public\s+issue|initial\s+public\s+offering)\b/i
\* Each alternative as its words (lower case: the i flag is modelled by
\* lower-casing the text); \s+ stands between the words of an alternative.
IpoPhrases ==
    { << <<"i","p","o">> >>,
      << <<"d","r","h","p">> >>,
      << <<"r","h","p">> >>,
      << <<"p","u","b","l","i","c">>, <<"i","s","s","u","e">> >>,
      << <<"i","n","i","t","i","a","l">>, <<"p","u","b","l","i","c">>,
         <<"o","f","f","e","r","i","n","g">> >> }

\* \w
IsWordChar(c) ==
    \/ \E k \in 1..26 : LowerChars[k] = c \/ UpperChars[k] = c
    \/ c \in {"0", "1", "2", "3", "4", "5", "6", "7", "8", "9", "_"}

\* \b at the gap in front of position pos.
WordBoundary(text, pos) ==
    LET before == pos > 1 /\ pos - 1 <= Len(text) /\ IsWordChar(text[pos - 1])
        after  == pos >= 1 /\ pos <= Len(text) /\ IsWordChar(text[pos])
    IN  before # after

\* First position at or after pos that holds no whitespace.
RECURSIVE SkipSpaces(_, _)
SkipSpaces(text, pos) ==
    IF pos <= Len(text) /\ IsSpace(text[pos]) THEN SkipSpaces(text, pos + 1) ELSE pos

\* Position right after a match of the alternative ph that starts at pos
\* (0: it does not match there).
RECURSIVE PhraseMatchEnd(_, _, _)
PhraseMatchEnd(text, pos, ph) ==
    IF ~MatchesAt(text, pos, ph[1]) THEN 0
    ELSE LET after == pos + Len(ph[1])
         IN  IF Len(ph) = 1 THEN after
             ELSE LET next == SkipSpaces(text, after)
                  IN  IF next = after THEN 0 ELSE PhraseMatchEnd(text, next, Tail(ph))

\* IPO_RGX.test(`${a.title} ${a.description||""}`)
IpoTest(a) ==
    LET text == toLowerCase(a.title \o <<" ">> \o
                            (IF a.description = None THEN <<>> ELSE a.description[1]))
    IN  \E ph \in IpoPhrases : \E pos \in 1..Len(text) :
           LET end == PhraseMatchEnd(text, pos, ph)
           IN  end > 0 /\ WordBoundary(text, pos) /\ WordBoundary(text, end)

Article(url, title, description) == [url |-> url, title |-> title, description |-> description]

\* Two articles, the first about an IPO ("Acme IPO opens"), the second not
\* ("Hippo markets rally" / "Public holiday").
MixedChunk ==
    << Article("https://n/acme", <<"A","c","m","e"," ","I","P","O"," ","o","p","e","n","s">>, None),
       Article("https://n/rally", <<"H","i","p","p","o"," ","m","a","r","k","e","t","s"," ","r","a","l","l","y">>, Some(<<"P","u","b","l","i","c"," ","h","o","l","i","d","a","y">>)) >>

\* One article whose keyword is in the description only ("Zed files" /
\* "Public  Issue soon").
DescChunk ==
    << Article("https://n/zed", <<"Z","e","d"," ","f","i","l","e","s">>, Some(<<"P","u","b","l","i","c"," "," ","I","s","s","u","e"," ","s","o","o","n">>)) >>

\* A full page of per articles, all about IPOs ("DRHP filed").
FullChunk(per) ==
    [k \in 1..per |-> Article("https://n/full/" \o ToString(k), <<"D","R","H","P"," ","f","i","l","e","d">>, None)]

\* A full page of per search results, all about IPOs ("IPO news").
FullSearchChunk(per) ==
    [k \in 1..per |-> Article("https://n/search/" \o ToString(k), <<"I","P","O"," ","n","e","w","s">>, None)]

\* j.articles of an ok response, per endpoint.
HeadlineChunks(per) == {<<>>, MixedChunk, FullChunk(per)}
SearchChunks(per) == {MixedChunk, DescChunk, FullSearchChunk(per)}

\* j.articles / j.value of an ok response to a search of the first agent.
FirstChunks == {<<>>, MixedChunk, DescChunk}

\* What fetch(url) can give gnewsFetch: a rejection (status 0), or a response
\* with a status and a body that is JSON with articles, or is not JSON.
NetworkError == [status |-> 0, parses |-> FALSE, body |-> <<>>]
Responses(chunks) ==
    {NetworkError}
    \cup {[status |-> 200, parses |-> TRUE, body |-> c] : c \in chunks}
    \cup {[status |-> st, parses |-> FALSE, body |-> <<>>] : st \in {200, 404, 429, 500}}

\* Math.floor(Math.random()*400): the two ends of its range.
JitterChoices == {0, JitterSpan - 1}

\* r.ok
Ok(resp) == resp.status >= 200 /\ resp.status <= 299

RECURSIVE Pow(_, _)
Pow(b, e) == IF e = 0 THEN 1 ELSE b * Pow(b, e - 1)

\* A back-off on 429 that grows by BASE_DELAY_MS per attempt.
Wait429Linear(i, jitter) == BASE_DELAY_MS * (i + 1) + jitter

\* BASE_DELAY_MS * Math.pow(1.8, i) + Math.floor(Math.random()*400), in whole ms.
Wait429(i, jitter) == (BASE_DELAY_MS * Pow(18, i)) \div Pow(10, i) + jitter

\* 1000 * (i+1)
Wait5xx(i) == RetryStepMs * (i + 1)

\* A retry rule that also retries on 4xx.
RetryableAny4xx(st) == st >= 400

\* The statuses gnewsFetch sleeps and retries on.
Retryable(st) == st = 429 \/ st >= 500

\* A loop that runs one attempt too many.
LoopRunsInclusive(i, tries) == i <= tries

\* for (let i=0; i<tries; i++)
LoopRuns(i, tries) == i < tries

\* const per / const pages / pagesNeeded of getArticles
PerPage == Min(PerPageCap, maxArticles)
CeilDiv(a, b) == (a + b - 1) \div b
HeadlinePages == Min(HeadlinePagesCap, CeilDiv(maxArticles, PerPage))
PagesNeededFor(len) == Min(SearchPagesCap, CeilDiv(maxArticles - len, PerPage))
Queries == <<"India IPO", "DRHP India">>

\* The queries of the first agent's getArticles.
FirstQueries ==
    <<"IPO India DRHP OR RHP", "site:sebi.gov.in DRHP",
      "site:nseindia.com RHP OR \"Public Issue\"",
      "site:bseindia.com \"Public Issue\" OR \"RHP\"">>

\* A dedupe that keeps every article.
DedupeOff(arts) == arts

\* all.filter(a => !seen.has(a.url) && seen.add(a.url))
RECURSIVE DedupeByUrl(_)
DedupeByUrl(arts) ==
    IF arts = <<>> THEN <<>>
    ELSE LET init == DedupeByUrl(SubSeq(arts, 1, Len(arts) - 1))
             a    == arts[Len(arts)]
         IN  IF \E k \in 1..Len(init) : init[k].url = a.url THEN init ELSE Append(init, a)

\* all.slice(0, MAX_ARTICLES)
SliceTo(arts, n) == SubSeq(arts, 1, Min(Len(arts), n))

InitNews ==
    /\ agent \in {"first", "low"}
    /\ \E envMax \in EnvMaxChoices : maxArticles = MaxArticlesOf(agent, envMax)
    /\ nFetched = 0 /\ idx = 1 /\ replies = <<>> /\ items = <<>> /\ llmCalls = 0
    /\ gapMs = 0 /\ lastGap = NoGap /\ pcA = "idle" /\ finalItems = <<>>
    /\ DeliveryIdle
    /\ pcN = "fetch" /\ phase = "headlines" /\ page = 1 /\ qIdx = 1
    /\ pagesNeeded = 0 /\ all = <<>> /\ attempt = 0 /\ resps = <<>>
    /\ waits = <<>> /\ thrown = "" /\ chunk = <<>> /\ sinceReq = NoGap
    /\ lastReqGap = NoGap /\ articles = <<>>
    /\ ServerOff

\* One iteration of gnewsFetch's loop: the request, its response, and what
\* the loop body does with it (return, sleep and continue, or throw); after
\* the sleep of the last attempt the loop ends and the function throws.
GnewsAttempt ==
    /\ agent = "low"
    /\ pcN = "fetch"
    /\ LoopRuns(attempt, DefaultTries)
    /\ \E resp \in Responses(IF phase = "headlines" THEN HeadlineChunks(PerPage)
                             ELSE SearchChunks(PerPage)),
          jitter \in JitterChoices :
         /\ resps' = Append(resps, resp)
         /\ lastReqGap' = sinceReq
         /\ \/ /\ resp = NetworkError
               /\ pcN' = "threw" /\ thrown' = "fetch failed"
               /\ sinceReq' = 0
               /\ UNCHANGED <<attempt, waits, chunk>>
            \/ /\ resp # NetworkError /\ Ok(resp) /\ resp.parses
               /\ pcN' = "returned" /\ chunk' = resp.body
               /\ sinceReq' = 0
               /\ UNCHANGED <<attempt, waits, thrown>>
            \/ /\ resp # NetworkError /\ Ok(resp) /\ ~resp.parses
               /\ pcN' = "threw" /\ thrown' = "SyntaxError"
               /\ sinceReq' = 0
               /\ UNCHANGED <<attempt, waits, chunk>>
            \/ /\ resp # NetworkError /\ ~Ok(resp) /\ Retryable(resp.status)
               /\ LET wait == IF resp.status = 429 THEN Wait429(attempt, jitter)
                              ELSE Wait5xx(attempt)
                  IN  /\ waits' = Append(waits, [i |-> attempt, status |-> resp.status,
                                                 ms |-> wait])
                      /\ sinceReq' = wait
               /\ attempt' = attempt + 1
               /\ IF LoopRuns(attempt + 1, DefaultTries)
                  THEN UNCHANGED <<pcN, thrown>>
                  ELSE pcN' = "threw" /\ thrown' = "GNews retries exhausted"
               /\ UNCHANGED chunk
            \/ /\ resp # NetworkError /\ ~Ok(resp) /\ ~Retryable(resp.status)
               /\ pcN' = "threw" /\ thrown' = "GNews status"
               /\ sinceReq' = 0
               /\ UNCHANGED <<attempt, waits, chunk>>
    /\ UNCHANGED <<agent, maxArticles, agentVars, phase, page, qIdx, pagesNeeded,
                   all, articles, serverVars>>

\* A new gnewsFetch call starts.
StartCall ==
    /\ attempt' = 0 /\ resps' = <<>> /\ waits' = <<>> /\ chunk' = <<>>
    /\ pcN' = "fetch"

\* getArticles() after a fetch returned: concat, sleep(BASE_DELAY_MS), and on to
\* the next page, the next loop, or the dedupe and slice at the end.
GetArticlesStep ==
    /\ pcN = "returned"
    /\ sinceReq' = sinceReq + BASE_DELAY_MS
    /\ LET grown == all \o chunk
       IN  \/ /\ phase = "headlines" /\ page < HeadlinePages
              /\ all' = grown /\ page' = page + 1
              /\ StartCall
              /\ UNCHANGED <<phase, qIdx, pagesNeeded, articles>>
           \/ /\ phase = "headlines" /\ page >= HeadlinePages
              /\ LET kept == SelectSeq(grown, IpoTest)
                 IN  /\ all' = kept
                     /\ IF Len(kept) < maxArticles
                        THEN /\ pagesNeeded' = PagesNeededFor(Len(kept))
                             /\ phase' = "search" /\ page' = 1 /\ qIdx' = 1
                             /\ StartCall
                             /\ UNCHANGED articles
                        ELSE /\ articles' = SliceTo(DedupeByUrl(kept), maxArticles)
                             /\ pcN' = "done"
                             /\ UNCHANGED <<phase, page, qIdx, pagesNeeded, attempt,
                                            resps, waits, chunk>>
           \/ /\ phase = "search" /\ page < pagesNeeded
              /\ all' = grown /\ page' = page + 1
              /\ StartCall
              /\ UNCHANGED <<phase, qIdx, pagesNeeded, articles>>
           \/ /\ phase = "search" /\ page >= pagesNeeded /\ qIdx < Len(Queries)
              /\ all' = grown /\ page' = 1 /\ qIdx' = qIdx + 1
              /\ StartCall
              /\ UNCHANGED <<phase, pagesNeeded, articles>>
           \/ /\ phase = "search" /\ page >= pagesNeeded /\ qIdx >= Len(Queries)
              /\ all' = grown
              /\ articles' = SliceTo(DedupeByUrl(grown), maxArticles)
              /\ pcN' = "done"
              /\ UNCHANGED <<phase, page, qIdx, pagesNeeded, attempt, resps, waits,
                             chunk>>
    /\ UNCHANGED <<agent, maxArticles, agentVars, thrown, lastReqGap, serverVars>>

\* One iteration of "for (const q of queries)" of the first agent's
\* getArticles: fetchBingNews / fetchGNews (which throw when neither key is
\* set, when fetch rejects, when the response is not ok or its body is not
\* JSON), concat, the 200 ms sleep, and after the last query the dedupe.
FirstGetArticlesStep ==
    /\ agent = "first"
    /\ pcN = "fetch"
    /\ \/ /\ qIdx = 1
          /\ pcN' = "threw" /\ thrown' = "Set BING_NEWS_KEY or GNEWS_API_KEY"
          /\ UNCHANGED <<qIdx, all, chunk, articles>>
       \/ \E resp \in Responses(FirstChunks) :
            /\ \/ /\ resp = NetworkError
                  /\ pcN' = "threw" /\ thrown' = "fetch failed"
                  /\ UNCHANGED <<qIdx, all, chunk, articles>>
               \/ /\ resp # NetworkError /\ ~Ok(resp)
                  /\ pcN' = "threw" /\ thrown' = "news error"
                  /\ UNCHANGED <<qIdx, all, chunk, articles>>
               \/ /\ resp # NetworkError /\ Ok(resp) /\ ~resp.parses
                  /\ pcN' = "threw" /\ thrown' = "SyntaxError"
                  /\ UNCHANGED <<qIdx, all, chunk, articles>>
               \/ /\ resp # NetworkError /\ Ok(resp) /\ resp.parses
                  /\ chunk' = resp.body
                  /\ all' = all \o resp.body
                  /\ IF qIdx < Len(FirstQueries)
                     THEN qIdx' = qIdx + 1 /\ UNCHANGED <<pcN, articles>>
                     ELSE /\ articles' = DedupeByUrl(all')
                          /\ pcN' = "done"
                          /\ UNCHANGED qIdx
                  /\ UNCHANGED thrown
    /\ UNCHANGED <<agent, maxArticles, agentVars, phase, page, pagesNeeded, attempt,
                   resps, waits, sinceReq, lastReqGap, serverVars>>

NextNews == GnewsAttempt \/ GetArticlesStep \/ FirstGetArticlesStep

SpecNews == InitNews /\ [][NextNews]_vars

(* ====================================================================== *)
(* Claims about gnewsFetch and getArticles                                *)
(* ====================================================================== *)
Abs(x) == IF x < 0 THEN 0 - x ELSE x
LastResp == resps[Len(resps)]

\* C3 as stated: within one call the sleeps after 429 responses, and the
\* sleeps after 5xx responses, grow by a constant amount from one failed
\* attempt to the next (up to the random jitter of the two sleeps compared).
C3_LinearBackoff ==
    \A k \in 1..Len(waits) :
       (k + 2 <= Len(waits) /\ waits[k].status = waits[k + 1].status
                            /\ waits[k + 1].status = waits[k + 2].status) =>
          Abs((waits[k + 2].ms - waits[k + 1].ms) - (waits[k + 1].ms - waits[k].ms))
             <= 2 * (JitterSpan - 1)

\* 2500 * 1.8^i for i = 0..4, in whole ms.
Base429 == <<2500, 4500, 8100, 14580, 26244>>

\* C3 amended: after a 5xx response at attempt i the sleep is 1000*(i+1) ms
\* (linear); after a 429 response it is 2500*1.8^i ms plus a jitter below
\* 400 ms (geometric).
C3_BackoffByStatus ==
    \A k \in 1..Len(waits) :
       /\ waits[k].i = k - 1
       /\ waits[k].status >= 500 => waits[k].ms = 1000 * k
       /\ waits[k].status = 429 =>
             /\ waits[k].ms >= Base429[k]
             /\ waits[k].ms < Base429[k] + 400

\* C3 witness: a call that slept after 429 at attempts 0, 1 and 2 and after
\* 500 at attempts 3 and 4.
C3_Witness ==
    /\ Len(waits) = 5
    /\ \A k \in 1..3 : waits[k].status = 429
    /\ \A k \in 4..5 : waits[k].status = 500

\* C4: a gnewsFetch call sends at most tries (5) requests; it ends at the
\* first ok response, returning the parsed body (JSON.parse's error if the
\* body is not JSON); it throws "GNews retries exhausted" exactly when all
\* 5 responses were 429 or 5xx, having sent 5 requests.
C4_AtMostTries ==
    /\ Len(resps) <= 5
    /\ \A k \in 1..(Len(resps) - 1) : ~Ok(resps[k])
    /\ pcN = "returned" => Ok(LastResp) /\ LastResp.parses /\ chunk = LastResp.body
    /\ (resps # <<>> /\ Ok(LastResp)) =>
          IF LastResp.parses THEN pcN \in {"returned", "done"}
          ELSE pcN = "threw" /\ thrown = "SyntaxError"
    /\ thrown = "GNews retries exhausted" <=>
          /\ Len(resps) = 5
          /\ \A k \in 1..5 : resps[k].status = 429 \/ resps[k].status >= 500
    /\ pcN = "threw" => thrown # ""

\* C4 witness: the call threw "GNews retries exhausted" after five requests.
C4_Witness ==
    /\ pcN = "threw" /\ thrown = "GNews retries exhausted"
    /\ Len(resps) = 5 /\ attempt = 5

\* C5: a response whose status is neither ok nor 429 nor >= 500 is the last
\* one of the call: gnewsFetch throws at once, without a sleep after it;
\* every response that was followed by a sleep and a request was 429 or 5xx.
C5_RetryOnly429And5xx ==
    /\ \A k \in 1..Len(resps) :
          (resps[k].status >= 300 /\ resps[k].status < 500 /\ resps[k].status # 429) =>
             /\ k = Len(resps)
             /\ pcN = "threw" /\ thrown = "GNews status"
             /\ Len(waits) = k - 1
             /\ sinceReq = 0
    /\ \A k \in 1..Len(waits) :
          /\ waits[k].status = 429 \/ waits[k].status >= 500
          /\ resps[k].status = waits[k].status

\* C5 witness: a 404 at the third attempt, after a 429 and a 500.
C5_Witness ==
    /\ Len(resps) = 3
    /\ resps[1].status = 429 /\ resps[2].status = 500 /\ resps[3].status = 404
    /\ pcN = "threw" /\ thrown = "GNews status"

\* C7: every request to GNews but the first is sent after at least
\* BASE_DELAY_MS of sleep since the previous request.
C7_RequestsSpaced == lastReqGap = NoGap \/ lastReqGap >= BASE_DELAY_MS

\* C14: every article getArticles of the low-request agent returns matches
\* IPO_RGX in its title or description.
C14_ReturnedArticlesMatchIpo ==
    (agent = "low" /\ pcN = "done") =>
       \A k \in 1..Len(articles) : IpoTest(articles[k])

\* Positions in the fetched list (all, in fetch order) of the first
\* occurrence of each url.
FirstOccurrences == {i \in 1..Len(all) : \A h \in 1..(i - 1) : all[h].url # all[i].url}

\* The k-th smallest element of a set of positions.
KthOf(P, k) == CHOOSE i \in P : Cardinality({h \in P : h <= i}) = k

\* C17: getArticles returns no two articles with the same url; what it
\* returns are the first occurrences of the urls, in fetch order (in the
\* low-request agent the first MAX_ARTICLES of them, and never more than
\* MAX_ARTICLES).
C17_DedupedByUrl ==
    pcN = "done" =>
       /\ \A i, j \in 1..Len(articles) : i # j => articles[i].url # articles[j].url
       /\ Len(articles) = IF agent = "low"
                          THEN Min(Cardinality(FirstOccurrences), maxArticles)
                          ELSE Cardinality(FirstOccurrences)
       /\ \A k \in 1..Len(articles) : articles[k] = all[KthOf(FirstOccurrences, k)]
       /\ agent = "low" => Len(articles) <= maxArticles

\* C17 witness: the low-request agent fetched a url twice and more distinct
\* urls than MAX_ARTICLES, and returned MAX_ARTICLES articles.
C17_Witness ==
    /\ agent = "low" /\ pcN = "done"
    /\ Cardinality(FirstOccurrences) < Len(all)
    /\ Cardinality(FirstOccurrences) > maxArticles
    /\ Len(articles) = maxArticles

(* ====================================================================== *)
(* The /monthly servers                                                   *)
(* ====================================================================== *)
Secret == "s3cret"

\* TO_EMAIL as the pieces between its commas.
ToEmailChoices ==
    { <<>>,
      << <<" ">> >>,
      << <<"a","@","x">>, <<" ","b","@","y"," ">>, <<>> >> }

\* (process.env.TO_EMAIL || "").split(",").map(s => s.trim()).filter(Boolean)
getRecipients(e) ==
    SelectSeq([k \in 1..Len(e.TO_EMAIL) |-> trim(e.TO_EMAIL[k])], LAMBDA x : x # <<>>)

\* process.env of a server: SHARED_SECRET ("" when unset), DRY_RUN === "1",
\* provider key set (SENDGRID_API_KEY / RESEND_API_KEY), FROM_EMAIL set,
\* TO_EMAIL, ZAPIER_HOOK_URL set, AI_SUMMARY === "1", OPENAI_API_KEY set.
Envs(v) ==
    [SHARED_SECRET : {"", Secret}, DRY_RUN : BOOLEAN, API_KEY : BOOLEAN,
     FROM_EMAIL : BOOLEAN, TO_EMAIL : ToEmailChoices, ZAPIER_HOOK_URL : BOOLEAN,
     AI_SUMMARY : IF v = "ai" THEN BOOLEAN ELSE {FALSE},
     OPENAI_API_KEY : IF v = "ai" THEN BOOLEAN ELSE {FALSE}]

\* const AI_ENABLED = process.env.AI_SUMMARY === "1" && !!openai
AI_ENABLED(e) == e.AI_SUMMARY /\ e.OPENAI_API_KEY

\* A request item, by the JSON type of each property ("missing", "str",
\* "num"), the kind of links.news ("missing", "url", "empty", "NA", "bad": a
\* string that is no URL) and the ai_summary it carries, if any.
ReqItem(company, status, news, summary) ==
    [company |-> company, status |-> status, news |-> news, ai_summary |-> summary]

\* A request body, by the JSON type of as_of_date and of items.
Body(date, itemsType, list) == [as_of_date |-> date, items |-> itemsType, list |-> list]

EmptyBody == Body("missing", "missing", <<>>)

\* The content a summary call of the server returns.
ServerSummary == <<"P", "<", "E">>

Bodies ==
    { Body("str", "arr", <<>>),
      Body("str", "arr", <<ReqItem("str", "str", "url", None)>>),
      Body("str", "arr", <<ReqItem("str", "str", "missing", Some(AgentSummary)),
                           ReqItem("str", "str", "NA", None)>>),
      EmptyBody,
      Body("num", "arr", <<>>),
      Body("str", "str", <<>>),
      Body("str", "arr", <<ReqItem("str", "missing", "url", None)>>),
      Body("str", "arr", <<ReqItem("str", "str", "bad", None)>>) }

Tokens == {None, Some(Secret), Some("wrong")}

Requests ==
    {[route |-> "/monthly", token |-> t, body |-> b] : t \in Tokens, b \in Bodies}
    \cup {[route |-> r, token |-> t, body |-> EmptyBody] : r \in {"/status", "/health"},
                                                           t \in Tokens}

\* Item: company and status are required strings; links.news is a URL, ""
\* or "NA" when present.
ItemParses(it) == it.company = "str" /\ it.status = "str" /\ it.news # "bad"

\* Payload.safeParse(req.body): as_of_date is a required string, items a
\* required array of Item; keys the schema does not name (ai_summary) are
\* stripped from the parsed data.
PayloadSafeParse(b) ==
    IF b.as_of_date = "str" /\ b.items = "arr"
       /\ \A k \in 1..Len(b.list) : ItemParses(b.list[k])
    THEN [success |-> TRUE,
          data |-> [items |-> [k \in 1..Len(b.list) |->
                                 [news |-> b.list[k].news, ai_summary |-> None]]]]
    ELSE [success |-> FALSE, data |-> [items |-> <<>>]]

\* escapeHtml: & < > " ' become entities.
escapeHtml(s) ==
    [k \in 1..Len(s) |->
        CASE s[k] = "&" -> "&amp;"
          [] s[k] = "<" -> "&lt;"
          [] s[k] = ">" -> "&gt;"
          [] s[k] = "\"" -> "&quot;"
          [] s[k] = "'" -> "&#39;"
          [] OTHER -> s[k]]

\* it.ai_summary is truthy: present and not "".
HasSummary(it) == it.ai_summary # None /\ it.ai_summary[1] # <<>>

\* buildHtml(payload), as far as the summaries go: for each row, the escaped
\* ai_summary the AI-enabled server renders when the item has one; the other
\* two servers render no summary.
buildHtml(v, p) ==
    [k \in 1..Len(p.items) |->
        IF v = "ai" /\ HasSummary(p.items[k])
        THEN Some(escapeHtml(p.items[k].ai_summary[1])) ELSE None]

\* A handler that never rejects the body.
ValidationNeverFails(b) == FALSE

\* if (!parsed.success) return res.status(400)...
ValidationFails(b) == ~PayloadSafeParse(b).success

\* A check that lets a request without the header through.
requireSecretLax(e, token) == e.SHARED_SECRET = "" \/ token = None \/ token = Some(e.SHARED_SECRET)

\* requireSecret: TRUE when it calls next().
requireSecret(e, token) == e.SHARED_SECRET = "" \/ token = Some(e.SHARED_SECRET)

\* An email step that does not look at FROM_EMAIL.
SendgridEmailPlanNoFromCheck(e) ==
    IF e.DRY_RUN THEN "dry"
    ELSE IF ~e.API_KEY THEN "SENDGRID_KEY_MISSING"
    ELSE IF getRecipients(e) = <<>> THEN "NO_RECIPIENTS"
    ELSE "send"

\* The email step of the SendGrid servers up to the provider call:
\* "dry", "send", or the error thrown.
SendgridEmailPlan(e) ==
    IF e.DRY_RUN THEN "dry"
    ELSE IF ~e.API_KEY THEN "SENDGRID_KEY_MISSING"
    ELSE IF ~e.FROM_EMAIL THEN "FROM_EMAIL_MISSING"
    ELSE IF getRecipients(e) = <<>> THEN "NO_RECIPIENTS"
    ELSE "send"

\* sendEmail of the Resend server up to the provider call.
ResendEmailPlan(e) ==
    IF getRecipients(e) = <<>> THEN "NO_RECIPIENTS"
    ELSE IF e.DRY_RUN THEN "dry"
    ELSE IF e.API_KEY /\ e.FROM_EMAIL THEN "send"
    ELSE "NO_DELIVERY_PATH_CONFIGURED"

EmailPlan(v, e) == IF v = "resend" THEN ResendEmailPlan(e) ELSE SendgridEmailPlan(e)

InitServer ==
    /\ agent = "low" /\ maxArticles = DefaultMaxLow
    /\ nFetched = 0 /\ idx = 1 /\ replies = <<>> /\ items = <<>> /\ llmCalls = 0
    /\ gapMs = 0 /\ lastGap = NoGap /\ pcA = "idle" /\ finalItems = <<>>
    /\ DeliveryIdle
    /\ NewsIdle
    /\ variant \in {"sendgrid", "ai", "resend"}
    /\ env \in Envs(variant)
    /\ req = <<>> /\ pcS = "idle" /\ payload = <<>> /\ aiIdx = 1
    /\ validated = FALSE /\ aiCalls = 0 /\ emailSends = 0 /\ forwards = 0
    /\ emailStep = "none" /\ forwardOut = "none" /\ html = <<>>
    /\ resStatus = 0 /\ resBody = ""

Respond(status, body) == pcS' = "responded" /\ resStatus' = status /\ resBody' = body

\* A request arrives (the server handles one request after the other).
Receive ==
    /\ pcS \in {"idle", "responded"}
    /\ req' \in Requests
    /\ pcS' = "routing"
    /\ payload' = <<>> /\ aiIdx' = 1 /\ validated' = FALSE /\ aiCalls' = 0
    /\ emailSends' = 0 /\ forwards' = 0 /\ emailStep' = "none" /\ forwardOut' = "none"
    /\ html' = <<>> /\ resStatus' = 0 /\ resBody' = ""
    /\ UNCHANGED <<agent, maxArticles, agentVars, newsVars, variant, env>>

\* app.get("/health", (_req, res) => res.json({ ok: true }))
Health ==
    /\ pcS = "routing" /\ req.route = "/health"
    /\ Respond(200, "ok:true")
    /\ UNCHANGED <<agent, maxArticles, agentVars, newsVars, variant, env, req, payload,
                   aiIdx, validated, aiCalls, emailSends, forwards, emailStep,
                   forwardOut, html>>

\* requireSecret in front of /status and /monthly.
RequireSecret ==
    /\ pcS = "routing" /\ req.route \in {"/status", "/monthly"}
    /\ IF requireSecret(env, req.token)
       THEN pcS' = "handler" /\ UNCHANGED <<resStatus, resBody>>
       ELSE Respond(401, "Unauthorized")
    /\ UNCHANGED <<agent, maxArticles, agentVars, newsVars, variant, env, req, payload,
                   aiIdx, validated, aiCalls, emailSends, forwards, emailStep,
                   forwardOut, html>>

\* app.get("/status", requireSecret, ...)
Status ==
    /\ pcS = "handler" /\ req.route = "/status"
    /\ Respond(200, "status")
    /\ UNCHANGED <<agent, maxArticles, agentVars, newsVars, variant, env, req, payload,
                   aiIdx, validated, aiCalls, emailSends, forwards, emailStep,
                   forwardOut, html>>

\* POST /monthly: Payload.safeParse and the 400 answer.
Validate ==
    /\ pcS = "handler" /\ req.route = "/monthly"
    /\ validated' = TRUE
    /\ IF ValidationFails(req.body)
       THEN Respond(400, "zod error") /\ UNCHANGED <<payload, html>>
       ELSE LET runsAi == variant = "ai" /\ AI_ENABLED(env)
                            /\ PayloadSafeParse(req.body).data.items # <<>>
            IN  /\ payload' = PayloadSafeParse(req.body).data
                /\ pcS' = IF runsAi THEN "ai" ELSE "email"
                /\ html' = IF runsAi THEN html ELSE buildHtml(variant, payload')
                /\ UNCHANGED <<resStatus, resBody>>
    /\ UNCHANGED <<agent, maxArticles, agentVars, newsVars, variant, env, req, aiIdx,
                   aiCalls, emailSends, forwards, emailStep, forwardOut>>

\* What openai.chat.completions.create gives generateAdvisorSummary: text,
\* nothing (the summary is then ""), or a rejection.
SummaryOutcomes == {"text", "empty", "throw"}

\* One iteration of the AI step:
\*   try { if (!it.ai_summary) it.ai_summary = await generateAdvisorSummary(it); }
\*   catch (e) { console.error(...) }
AiSummaryOne ==
    /\ pcS = "ai"
    /\ aiIdx <= Len(payload.items)
    /\ \E out \in SummaryOutcomes :
         LET it == payload.items[aiIdx]
             has == HasSummary(it)
         IN  /\ aiCalls' = IF has THEN aiCalls ELSE aiCalls + 1
             /\ payload' = IF has \/ out = "throw" THEN payload
                           ELSE [payload EXCEPT !.items[aiIdx].ai_summary =
                                    Some(IF out = "text" THEN ServerSummary ELSE <<>>)]
    /\ aiIdx' = aiIdx + 1
    /\ pcS' = IF aiIdx + 1 <= Len(payload.items) THEN "ai" ELSE "email"
    /\ html' = IF aiIdx + 1 <= Len(payload.items) THEN html ELSE buildHtml(variant, payload')
    /\ UNCHANGED <<agent, maxArticles, agentVars, newsVars, variant, env, req, validated,
                   emailSends, forwards, emailStep, forwardOut, resStatus, resBody>>

\* A handler that forwards whether or not ZAPIER_HOOK_URL is set.
AfterEmailIgnoringHook ==
    pcS' = "forward" /\ forwards' = forwards + 1 /\ UNCHANGED <<resStatus, resBody>>

\* After the email step finished without throwing: forward to the webhook
\* when ZAPIER_HOOK_URL is set, else res.json({ ok: true }).
AfterEmail ==
    IF env.ZAPIER_HOOK_URL
    THEN pcS' = "forward" /\ forwards' = forwards + 1 /\ UNCHANGED <<resStatus, resBody>>
    ELSE Respond(200, "ok:true") /\ UNCHANGED forwards

\* The email step: dry run, a configuration error, or the provider call,
\* which resolves or rejects.
Email ==
    /\ pcS = "email"
    /\ LET plan == EmailPlan(variant, env)
       IN  \/ /\ plan = "dry"
              /\ UNCHANGED emailSends
              /\ emailStep' = "dry"
              /\ AfterEmail
           \/ /\ plan = "send"
              /\ emailSends' = emailSends + 1
              /\ emailStep' = "sent"
              /\ AfterEmail
           \/ /\ plan = "send"
              /\ emailSends' = emailSends + 1
              /\ emailStep' = "threw"
              /\ Respond(500, "provider error")
              /\ UNCHANGED forwards
           \/ /\ plan \notin {"dry", "send"}
              /\ emailStep' = "threw"
              /\ Respond(500, plan)
              /\ UNCHANGED <<emailSends, forwards>>
    /\ UNCHANGED <<agent, maxArticles, agentVars, newsVars, variant, env, req, payload,
                   aiIdx, validated, aiCalls, forwardOut, html>>

\* How the fetch to ZAPIER_HOOK_URL settles: a response with a 2xx status,
\* one with an error status, or a rejection.
ForwardOutcomes == {"200", "500", "reject"}

\* The fetch to ZAPIER_HOOK_URL settles: any status is only logged; a
\* rejection is caught and answered with 500.
Forward ==
    /\ pcS = "forward"
    /\ \E out \in ForwardOutcomes :
         /\ forwardOut' = out
         /\ IF out = "reject" THEN Respond(500, "fetch failed") ELSE Respond(200, "ok:true")
    /\ UNCHANGED <<agent, maxArticles, agentVars, newsVars, variant, env, req, payload,
                   aiIdx, validated, aiCalls, emailSends, forwards, emailStep, html>>

NextServer ==
    Receive \/ Health \/ RequireSecret \/ Status \/ Validate \/ AiSummaryOne \/ Email \/ Forward

SpecServer == InitServer /\ [][NextServer]_vars

(* ====================================================================== *)
(* Claims about the servers                                               *)
(* ====================================================================== *)
\* The request passed requireSecret: no secret is configured, or the token
\* is the secret.
Admitted == env.SHARED_SECRET = "" \/ req.token = Some(env.SHARED_SECRET)

\* The body fails the Payload schema: as_of_date is not a string, items is
\* not an array, or an item lacks a string company or status or carries a
\* links.news that is neither a URL nor "" nor "NA".
FailsSchema(b) ==
    \/ b.as_of_date # "str"
    \/ b.items # "arr"
    \/ \E k \in 1..Len(b.list) :
          b.list[k].company # "str" \/ b.list[k].status # "str" \/ b.list[k].news = "bad"

\* C9: a /monthly request that reaches the handler with a body that fails the
\* Payload schema makes no summary call, no email send and no forward, and
\* its response is 400, in each of the three servers.
C9_InvalidBody400 ==
    (pcS \notin {"idle", "off"} /\ req.route = "/monthly" /\ Admitted
        /\ FailsSchema(req.body)) =>
       /\ aiCalls = 0 /\ emailSends = 0 /\ forwards = 0
       /\ pcS \in {"routing", "handler", "responded"}
       /\ pcS = "responded" => resStatus = 400

\* C9 witness: the AI-enabled server, set up to send and forward, answered
\* 400 to a body whose item has no status.
C9_Witness ==
    /\ pcS = "responded" /\ resStatus = 400
    /\ variant = "ai" /\ AI_ENABLED(env) /\ env.ZAPIER_HOOK_URL
    /\ EmailPlan(variant, env) = "send"
    /\ \E k \in 1..Len(req.body.list) : req.body.list[k].status = "missing"

\* C10: with SHARED_SECRET set, a /monthly or /status request whose token is
\* absent or differs from it is answered 401 with no validation, summary
\* call, email send or forward; /health is answered 200 {ok:true} whatever
\* the token.
C10_SecretGuards ==
    /\ (pcS \notin {"idle", "off"} /\ req.route \in {"/monthly", "/status"}
           /\ env.SHARED_SECRET # "" /\ req.token # Some(env.SHARED_SECRET)) =>
          /\ ~validated /\ aiCalls = 0 /\ emailSends = 0 /\ forwards = 0
          /\ pcS \in {"routing", "responded"}
          /\ pcS = "responded" => resStatus = 401
    /\ (pcS = "responded" /\ req.route = "/health") =>
          resStatus = 200 /\ resBody = "ok:true"

\* C10 witness: a /monthly request with a valid body and no token answered
\* 401 by a server with the secret set.
C10_Witness ==
    /\ pcS = "responded" /\ resStatus = 401
    /\ req.route = "/monthly" /\ req.token = None /\ env.SHARED_SECRET = Secret
    /\ ~FailsSchema(req.body)

\* The request is a /monthly request whose handler reached the email step.
MonthlyEmailed == pcS \in {"forward", "responded"} /\ req.route = "/monthly" /\ emailStep # "none"

\* C11: in /monthly the forward to ZAPIER_HOOK_URL is made at most once, only
\* when ZAPIER_HOOK_URL is set and only after the email step (send or dry run)
\* finished without throwing; when the email step throws, no forward is made
\* and the response is 500.
C11_EmailBeforeForward ==
    /\ forwards <= 1
    /\ forwards > 0 => env.ZAPIER_HOOK_URL /\ emailStep \in {"dry", "sent"}
    /\ pcS = "forward" => forwards = 1 /\ forwardOut = "none"
    /\ forwardOut # "none" => forwards = 1
    /\ emailStep = "threw" =>
          forwards = 0 /\ forwardOut = "none" /\ pcS = "responded" /\ resStatus = 500

\* C11 witness: with ZAPIER_HOOK_URL set, the provider call was made and
\* rejected, and the request was answered.
C11_Witness ==
    /\ pcS = "responded" /\ req.route = "/monthly"
    /\ env.ZAPIER_HOOK_URL /\ emailSends = 1 /\ emailStep = "threw"

\* Status and forwarding decision of server v for /monthly under environment
\* e, when the provider call (if made) succeeds iff providerOk and the
\* forward's fetch (if made) settles as fwd.
MonthlyOutcome(v, e, providerOk, fwd) ==
    LET plan == EmailPlan(v, e)
    IN  IF plan \notin {"dry", "send"} \/ (plan = "send" /\ ~providerOk)
        THEN [status |-> 500, forwarded |-> FALSE]
        ELSE IF e.ZAPIER_HOOK_URL
        THEN [status |-> IF fwd = "reject" THEN 500 ELSE 200, forwarded |-> TRUE]
        ELSE [status |-> 200, forwarded |-> FALSE]

\* The server backed by the other provider.
OtherProvider(v) == IF v = "resend" THEN "sendgrid" ELSE "resend"

\* C12: whatever a server answered to a valid /monthly request, the server
\* backed by the other provider answers the same request under the same
\* environment with the same HTTP status and the same forwarding decision
\* (the provider call and the forward's fetch behaving alike in both).
C12_ProvidersInterchangeable ==
    (pcS = "responded" /\ MonthlyEmailed) =>
       \E providerOk \in BOOLEAN, fwd \in ForwardOutcomes :
          /\ emailSends = 1 => (providerOk <=> emailStep = "sent")
          /\ forwards = 1 => fwd = forwardOut
          /\ MonthlyOutcome(OtherProvider(variant), env, providerOk, fwd)
                = [status |-> resStatus, forwarded |-> forwards > 0]

\* The summaries the request's items carried on arrival.
Arrived(k) == req.body.list[k].ai_summary

\* C15: in the AI-enabled server with the summary step on, once the email is
\* rendered every item that arrived with an ai_summary still has that text,
\* the email renders that text (escaped), and summary calls were made at most
\* for the items that arrived without one.
C15_ArrivingSummaryKept ==
    (variant = "ai" /\ AI_ENABLED(env)
        /\ pcS \in {"email", "forward", "responded"} /\ req.route = "/monthly"
        /\ validated /\ ~FailsSchema(req.body)) =>
       /\ \A k \in 1..Len(req.body.list) :
             Arrived(k) # None =>
                /\ payload.items[k].ai_summary = Arrived(k)
                /\ html[k] = Some(escapeHtml(Arrived(k)[1]))
       /\ aiCalls <= Cardinality({k \in 1..Len(req.body.list) : Arrived(k) = None})

\* The errors that match what a non-dry-run environment lacks.
MatchingErrors(v, e) ==
    IF v = "resend"
    THEN (IF getRecipients(e) = <<>> THEN {"NO_RECIPIENTS"} ELSE {})
         \cup (IF ~e.API_KEY \/ ~e.FROM_EMAIL THEN {"NO_DELIVERY_PATH_CONFIGURED"} ELSE {})
    ELSE (IF ~e.API_KEY THEN {"SENDGRID_KEY_MISSING"} ELSE {})
         \cup (IF ~e.FROM_EMAIL THEN {"FROM_EMAIL_MISSING"} ELSE {})
         \cup (IF getRecipients(e) = <<>> THEN {"NO_RECIPIENTS"} ELSE {})

\* C18: when DRY_RUN is not "1" and the provider key, FROM_EMAIL or the
\* recipient list is missing, a /monthly request that reaches the email step
\* is answered 500 with an error naming something that is missing, no provider
\* send is made and nothing is forwarded.
C18_MissingConfig500 ==
    (MonthlyEmailed /\ ~env.DRY_RUN
        /\ (~env.API_KEY \/ ~env.FROM_EMAIL \/ getRecipients(env) = <<>>)) =>
       /\ pcS = "responded" /\ resStatus = 500
       /\ resBody \in MatchingErrors(variant, env)
       /\ emailSends = 0 /\ forwards = 0

\* C18 witness: a SendGrid server with the key set, recipients and the
\* webhook configured but no FROM_EMAIL answered 500 FROM_EMAIL_MISSING.
C18_Witness ==
    /\ pcS = "responded" /\ req.route = "/monthly" /\ variant = "sendgrid"
    /\ ~env.DRY_RUN /\ env.API_KEY /\ ~env.FROM_EMAIL /\ getRecipients(env) # <<>>
    /\ env.ZAPIER_HOOK_URL
    /\ resStatus = 500 /\ resBody = "FROM_EMAIL_MISSING"

\* C19: /monthly answers 200 {ok:true} only when the email step completed
\* (send accepted, or dry run) and, if ZAPIER_HOOK_URL is set, the forward
\* returned a success status.
C19_OkOnlyWhenDelivered ==
    (pcS = "responded" /\ req.route = "/monthly" /\ resStatus = 200) =>
       /\ resBody = "ok:true"
       /\ emailStep \in {"dry", "sent"}
       /\ env.ZAPIER_HOOK_URL => forwardOut = "200"

=============================================================================
